---- MODULE Spec2Model ----
(***************************************************************************)
(* Model of the QuizLab -> Anki export path:                               *)
(*   - the Quiz Fetch Endpoint  (POST handler, route source)               *)
(*   - the Local Automation Client (anki-connect source)                   *)
(*   - the Orchestration Function (fetchQuizData / sendToAnki)             *)
(*                                                                         *)
(* JavaScript strings are sequences of text fragments, concatenation is \o *)
(* and String.includes is a contiguous-subsequence test.  JavaScript       *)
(* values of unknown shape (quiz.questions, question.options) are tagged   *)
(* records [kind, items].                                                  *)
(***************************************************************************)
EXTENDS Integers, Sequences, FiniteSets, TLC

\* ------------------------------------------------------------------ bounds
MaxQuestions == 2
MaxOptions == 2
MaxResultLen == 2

\* ------------------------------------------------------- JavaScript values
JsUndefined == [kind |-> "undefined", items |-> <<>>]
JsNull == [kind |-> "null", items |-> <<>>]
JsEmptyString == [kind |-> "emptystring", items |-> <<>>]
JsObject == [kind |-> "object", items |-> <<>>]
JsArray(s) == [kind |-> "array", items |-> s]

Truthy(v) == v.kind \in {"object", "array"}
IsArray(v) == v.kind = "array"

\* haystack.includes(needle)
Includes(haystack, needle) ==
    \E i \in 1..(Len(haystack) + 1) :
        /\ i + Len(needle) - 1 <= Len(haystack)
        /\ SubSeq(haystack, i, i + Len(needle) - 1) = needle

RECURSIVE Join(_, _)
\* array.join(sep) over an array of strings
Join(strs, sep) ==
    IF Len(strs) = 0 THEN <<>>
    ELSE IF Len(strs) = 1 THEN strs[1]
    ELSE strs[1] \o sep \o Join(Tail(strs), sep)

NoError == [name |-> "none", message |-> <<>>]
MkError(n, m) == [name |-> n, message |-> m]

\* ----------------------------------------------- Local Automation Client
AnkiVersion == 6

\* The message a rejected fetch() carries is chosen by the browser engine.
FetchFailureMessages ==
    { <<"Failed", "to", "fetch">>,
      <<"NetworkError", "when", "attempting", "to", "fetch", "resource.">>,
      <<"Load", "failed">> }

MixedContentMessage ==
    << "Could not connect to Anki. This may be due to mixed content restrictions.",
       "Please make sure:",
       "1. Anki is running on your computer",
       "2. The Anki-Connect plugin is installed",
       "3. You've configured Anki-Connect to allow connections from this website",
       "4. You've allowed mixed content in your browser for this site",
       "To allow mixed content, look for a shield icon in your browser's address bar." >>

ListenerNotRunningMessage ==
    << "Could not connect to Anki. Please make sure:",
       "1. Anki is running on your computer",
       "2. The Anki-Connect plugin is installed",
       "3. You've configured Anki-Connect to allow connections from this website",
       "4. You're using this feature from your browser, not a mobile device" >>

GenericConnectMessage ==
    << "Could not connect to Anki. Please make sure Anki is running with AnkiConnect installed." >>

NotBrowserMessage == << "Anki-Connect can only be used in a browser environment" >>

\* What the listener (and the network in front of it) does with one request.
\*   net    : "reject" (fetch rejects) or "response"
\*   failmsg: the TypeError message of a rejected fetch
\*   status : HTTP status of the response
\*   body   : "json" (an object), "null" (the JSON value null), "garbage"
\*   error  : the error field of the body (<<>> when null/absent)
\*   result : the result field, a tagged value
ListenerOutcomes ==
    { [net |-> "reject", failmsg |-> m, status |-> 0, body |-> "garbage",
       error |-> <<>>, result |-> JsNull] : m \in FetchFailureMessages }
    \cup
    { [net |-> "response", failmsg |-> <<>>, status |-> s, body |-> "garbage",
       error |-> <<>>, result |-> JsNull] : s \in {403, 500} }
    \cup
    { [net |-> "response", failmsg |-> <<>>, status |-> 200, body |-> b,
       error |-> <<>>, result |-> JsNull] : b \in {"garbage", "null"} }
    \cup
    { [net |-> "response", failmsg |-> <<>>, status |-> 200, body |-> "json",
       error |-> <<"deck", "error">>, result |-> JsNull] }
    \cup
    { [net |-> "response", failmsg |-> <<>>, status |-> 200, body |-> "json",
       error |-> <<>>, result |-> r] :
         r \in {JsNull} \cup { JsArray([k \in 1..n |-> k]) : n \in 0..MaxResultLen } }

\* response.ok
ResponseOk(status) == status >= 200 /\ status <= 299

\* ----------------------------------------------------------- data model
Users == {"u1", "u2"}
DeckNames == {"Deck1", "Deck2"}
OptionNames == <<"o0", "o1", "o2", "o3", "o4", "o5">>
QuestionTypes == {"multiple_choice", "short_answer"}

\* question.options: absent, a non-array object, or an array of strings
OptionValues ==
    {JsUndefined, JsObject}
    \cup { JsArray([i \in 1..n |-> <<OptionNames[i]>>]) : n \in 0..MaxOptions }

\* every options value on a multiple_choice question; absent or a one-element
\* array on a question of another type
Questions ==
    { [text |-> <<"Prompt">>, type |-> t, options |-> o, correctAnswer |-> <<"Answer">>] :
        t \in QuestionTypes, o \in OptionValues }
    \ { [text |-> <<"Prompt">>, type |-> "short_answer", options |-> o,
          correctAnswer |-> <<"Answer">>] :
            o \in OptionValues \ {JsUndefined, JsArray(<<<<OptionNames[1]>>>>)} }

QuestionSeqs == UNION { [1..n -> Questions] : n \in 0..MaxQuestions }

MkQuiz(i, u, qs) == [id |-> i, user_id |-> u, questions |-> qs]
NoQuiz == MkQuiz("", "", JsUndefined)

McQuestion(n) ==
    [text |-> <<"Prompt">>, type |-> "multiple_choice",
     options |-> JsArray([i \in 1..n |-> <<OptionNames[i]>>]),
     correctAnswer |-> <<"Answer">>]
ShortQuestion ==
    [text |-> <<"Prompt">>, type |-> "short_answer", options |-> JsUndefined,
     correctAnswer |-> <<"Answer">>]

\* The rows of the quizzes table (owned by the persistence collaborator).
QuizTable ==
    { MkQuiz("q1", "u1", JsArray(<<McQuestion(3), ShortQuestion>>)),
      MkQuiz("q2", "u2", JsArray(<<ShortQuestion>>)),
      MkQuiz("q3", "u1", JsArray(<<>>)),
      MkQuiz("q4", "u1", JsNull),
      MkQuiz("q5", "u1", JsObject),
      MkQuiz("q6", "u2", JsEmptyString) }

\* quizId values a request can carry; "" is an absent or empty quizId
QuizIds == {"q1", "q2", "q3", "q4", "q5", "q6", "q9"}
RequestQuizIds == QuizIds \cup {""}

\* Quizzes handed directly to sendQuizToAnki by a caller
DirectQuizzes ==
    { MkQuiz("q7", "u1", JsArray(qs)) : qs \in QuestionSeqs }
    \cup { MkQuiz("q8", "u1", v) : v \in {JsUndefined, JsObject} }

\* ---------------------------------------------------------------- state
VARIABLES
    isBrowser,        \* typeof window !== 'undefined'
    isSecureContext,  \* isBrowser && window.isSecureContext
    pc,               \* position of the running flow
    entry,            \* which exported function the caller invoked
    request,          \* the HTTP request the endpoint is handling
    session,          \* what supabase.auth.getSession() resolved to
    bodyRead,         \* request.json() has been called
    dbQueries,        \* lookups issued to the quizzes table
    lookup,           \* { data, error } of the lookup
    response,         \* the HTTP response of the endpoint (or of an intermediary)
    argQuizId,        \* sendToAnki's quizId
    argDeckName,      \* sendToAnki's deckName
    sqCalls,          \* the (quiz, deckName) pairs sendQuizToAnki was called with
    isConnected,      \* what testAnkiConnection() returned
    notes,            \* the notes handed to addNotes
    wire,             \* requests sent to the local listener, in order
    calls,            \* invokeAnkiConnect calls: listener outcome and what came back
    decks,            \* decks that exist in the flashcard tool
    sqOutcome,        \* how sendQuizToAnki ended
    outcome           \* how sendToAnki / fetchQuizData ended

vars == << isBrowser, isSecureContext, pc, entry, request, session, bodyRead,
           dbQueries, lookup, response, argQuizId, argDeckName, sqCalls, isConnected, notes, wire,
           calls, decks, sqOutcome, outcome >>

\* ------------------------------------------ invokeAnkiConnect (pure part)
NoValue == JsUndefined
Returned(v) == [threw |-> FALSE, error |-> NoError, value |-> v]
Threw(e) == [threw |-> TRUE, error |-> e, value |-> NoValue]

\* The body of the try block: fetch, status check, body parse, error field.
InvokeTry(out) ==
    IF out.net = "reject" THEN Threw(MkError("TypeError", out.failmsg))
    ELSE IF ~ResponseOk(out.status)
        THEN Threw(MkError("Error", <<"HTTP error! status: ", ToString(out.status)>>))
    ELSE IF out.body = "garbage"
        THEN Threw(MkError("SyntaxError", <<"Unexpected token in JSON">>))
    ELSE IF out.body = "null"
        THEN Threw(MkError("TypeError", <<"Cannot read properties of null">>))
    ELSE IF out.error # <<>>
        THEN Threw(MkError("Error", <<"Anki-Connect error: ">> \o out.error))
    ELSE Returned(out.result)

\* error instanceof TypeError && error.message.includes('Failed to fetch')
IsConnectionError(e) ==
    e.name = "TypeError" /\ Includes(e.message, <<"Failed", "to", "fetch">>)

\* The catch block: re-message a connection error, rethrow everything else.
InvokeCatch(e, secure) ==
    IF IsConnectionError(e)
    THEN IF secure THEN MkError("Error", MixedContentMessage)
         ELSE MkError("Error", ListenerNotRunningMessage)
    ELSE e

\* invokeAnkiConnect(action, params) when the listener answers with `out`.
\* sent: whether a request went out to the listener.
InvokeAnkiConnect(browser, secure, out) ==
    IF ~browser
    THEN [sent |-> FALSE, ret |-> Threw(MkError("Error", NotBrowserMessage))]
    ELSE LET r == InvokeTry(out)
         IN  [sent |-> TRUE,
              ret |-> IF r.threw THEN Threw(InvokeCatch(r.error, secure)) ELSE r]

\* variant: only a TypeError counts as a failed connection test
TestAnkiConnectionTypeErrorOnly(ret) == ~ret.threw \/ ret.error.name # "TypeError"

\* testAnkiConnection(): true iff invokeAnkiConnect('version') resolved
TestAnkiConnection(ret) == ~ret.threw

\* --------------------------------------------------- Question -> Note
Letters == <<"a", "b", "c", "d", "e", "f", "g", "h">>
\* String.fromCharCode(code), for the codes the bounds reach
FromCharCode(code) ==
    IF code >= 97 /\ code - 96 <= Len(Letters) THEN Letters[code - 96] ELSE "?"

\* variant: letters start one code too far
OptionLinesOffByOne(opts) ==
    [k \in 1..Len(opts) |-> <<FromCharCode(97 + k), ") ">> \o opts[k]]

\* options.map((opt, i) => `${String.fromCharCode(97 + i)}) ${opt}`)
OptionLines(opts) ==
    [k \in 1..Len(opts) |-> <<FromCharCode(97 + (k - 1)), ") ">> \o opts[k]]

\* question.type === 'multiple_choice' && question.options
HasOptionList(question) ==
    question.type = "multiple_choice" /\ Truthy(question.options)

\* the Front field
Front(question) ==
    IF HasOptionList(question)
    THEN question.text \o <<"<br><br>">>
         \o Join(OptionLines(question.options.items), <<"<br>">>)
    ELSE question.text

MakeNote(question, quiz, deckName) ==
    [deckName |-> deckName,
     modelName |-> "Basic",
     fields |-> [Front |-> Front(question), Back |-> question.correctAnswer],
     options |-> [allowDuplicate |-> FALSE, duplicateScope |-> "deck"],
     tags |-> << <<"quizlab-", quiz.id>>, <<"quizlab">> >>]

\* quiz.questions.map(...) throws when questions has no map, or when a
\* multiple_choice question's options is a truthy non-array
MappingThrows(quiz) ==
    \/ ~IsArray(quiz.questions)
    \/ \E k \in 1..Len(quiz.questions.items) :
          /\ HasOptionList(quiz.questions.items[k])
          /\ ~IsArray(quiz.questions.items[k].options)

PrepareNotes(quiz, deckName) ==
    [k \in 1..Len(quiz.questions.items) |->
        MakeNote(quiz.questions.items[k], quiz, deckName)]

\* variant: counts the notes submitted instead of the results returned
SuccessResultCountsNotes(result, deckName) ==
    [success |-> TRUE,
     addedNotes |-> Len(notes),
     message |-> <<"Successfully added ", ToString(Len(notes)),
                   " cards to Anki deck \"", deckName, "\"">>]

\* the value sendQuizToAnki returns
SuccessResult(result, deckName) ==
    [success |-> TRUE,
     addedNotes |-> Len(result.items),
     message |-> <<"Successfully added ", ToString(Len(result.items)),
                   " cards to Anki deck \"", deckName, "\"">>]

NoResult == [success |-> FALSE, addedNotes |-> 0, message |-> <<>>]
NoOutcome == [state |-> "pending", error |-> NoError, result |-> NoResult]
Failed(e) == [state |-> "failed", error |-> e, result |-> NoResult]
Succeeded(r) == [state |-> "returned", error |-> NoError, result |-> r]

\* -------------------------------------------------- Quiz Fetch Endpoint
NoRequest == [bodyKind |-> "none", quizId |-> ""]
Requests ==
    { [bodyKind |-> "json", quizId |-> q] : q \in RequestQuizIds }
    \cup { [bodyKind |-> "garbage", quizId |-> ""] }

\* An HTTP response: status, body kind ("text", "json", "null"), the text of
\* a plain-text body, and the message / quiz fields of a JSON body.
Resp(st, kind, text, message, hasQuiz, quiz) ==
    [status |-> st, kind |-> kind, text |-> text, message |-> message,
     hasQuiz |-> hasQuiz, quiz |-> quiz]
TextResp(st, text) == Resp(st, "text", text, <<>>, FALSE, NoQuiz)
NoResponse == Resp(0, "none", <<>>, <<>>, FALSE, NoQuiz)

\* the catch block of POST
InternalError(msg) == TextResp(500, <<"Error fetching quiz: ">> \o msg)

\* variant: the session check is missing
UnauthenticatedNever(s) == FALSE

\* if (!session)
Unauthenticated(s) == s = "none"

\* if (!quizId)
MissingQuizId(quizId) == quizId = ""

\* variant: the lookup filters on the identifier alone
LookupByIdOnly(quizId, userId) == { q \in QuizTable : q.id = quizId }

\* .from('quizzes').select('*').eq('id', quizId).eq('user_id', userId)
Lookup(quizId, userId) ==
    { q \in QuizTable : q.id = quizId /\ q.user_id = userId }

NoLookup == [error |-> <<>>, hasData |-> FALSE, data |-> NoQuiz]

\* .single(): exactly one row, else an error; a store fault is an error too
Single(rows, fault) ==
    IF fault
    THEN [error |-> <<"connection to the store failed">>, hasData |-> FALSE, data |-> NoQuiz]
    ELSE IF Cardinality(rows) = 1
    THEN [error |-> <<>>, hasData |-> TRUE, data |-> CHOOSE q \in rows : TRUE]
    ELSE [error |-> <<"JSON object requested, multiple (or no) rows returned">>,
          hasData |-> FALSE, data |-> NoQuiz]

\* variant: the emptiness check is missing
InvalidStructureNoLength(quiz) ==
    \/ ~Truthy(quiz.questions)
    \/ ~IsArray(quiz.questions)

\* !quiz.questions || !Array.isArray(quiz.questions) || quiz.questions.length === 0
InvalidStructure(quiz) ==
    \/ ~Truthy(quiz.questions)
    \/ ~IsArray(quiz.questions)
    \/ Len(quiz.questions.items) = 0

\* what POST answers once the lookup has resolved
LookupResponse(r) ==
    IF r.error # <<>> THEN TextResp(404, <<"Quiz not found: ">> \o r.error)
    ELSE IF ~r.hasData THEN TextResp(404, <<"Quiz not found">>)
    ELSE IF InvalidStructure(r.data) THEN TextResp(400, <<"Invalid quiz structure">>)
    ELSE Resp(200, "json", <<>>, <<>>, TRUE, r.data)

\* -------------------------------------------------- Orchestration (pure)
\* Responses that do not come from the endpoint (gateway, proxy, middleware)
IntermediaryResponses ==
    { TextResp(502, <<"Bad Gateway">>),
      TextResp(200, <<"<html>">>),
      Resp(200, "json", <<>>, <<>>, FALSE, NoQuiz),
      Resp(200, "null", <<>>, <<>>, FALSE, NoQuiz),
      Resp(503, "json", <<>>, <<"Service unavailable">>, FALSE, NoQuiz),
      Resp(503, "null", <<>>, <<>>, FALSE, NoQuiz) }

\* variant: the data.quiz check is missing
FetchQuizDataNoQuizCheck(r) ==
    IF ~ResponseOk(r.status)
    THEN IF r.kind = "null"
         THEN Threw(MkError("TypeError", <<"Cannot read properties of null">>))
         ELSE IF r.kind = "json" /\ r.message # <<>>
         THEN Threw(MkError("Error", r.message))
         ELSE Threw(MkError("Error", <<"Failed to fetch quiz data: ", ToString(r.status)>>))
    ELSE IF r.kind = "text"
         THEN Threw(MkError("SyntaxError", <<"Unexpected token in JSON">>))
    ELSE IF r.kind = "null"
         THEN Threw(MkError("TypeError", <<"Cannot read properties of null">>))
    ELSE Returned(JsObject)

\* fetchQuizData once the response has arrived
FetchQuizData(r) ==
    IF ~ResponseOk(r.status)
    THEN IF r.kind = "null"
         THEN Threw(MkError("TypeError", <<"Cannot read properties of null">>))
         ELSE IF r.kind = "json" /\ r.message # <<>>
         THEN Threw(MkError("Error", r.message))
         ELSE Threw(MkError("Error", <<"Failed to fetch quiz data: ", ToString(r.status)>>))
    ELSE IF r.kind = "text"
         THEN Threw(MkError("SyntaxError", <<"Unexpected token in JSON">>))
    ELSE IF r.kind = "null"
         THEN Threw(MkError("TypeError", <<"Cannot read properties of null">>))
    ELSE IF ~r.hasQuiz
         THEN Threw(MkError("Error", <<"No quiz data received from server">>))
    ELSE Returned(JsObject)

\* ----------------------------------------------------------------- Init
Init ==
    /\ isBrowser \in BOOLEAN
    /\ isSecureContext \in BOOLEAN
    /\ (isSecureContext => isBrowser)
    /\ pc = "idle"
    /\ entry = "none"
    /\ request = NoRequest
    /\ session = "unset"
    /\ bodyRead = FALSE
    /\ dbQueries = <<>>
    /\ lookup = NoLookup
    /\ response = NoResponse
    /\ argQuizId = ""
    /\ argDeckName = ""
    /\ sqCalls = <<>>
    /\ isConnected = "unset"
    /\ notes = <<>>
    /\ wire = <<>>
    /\ calls = <<>>
    /\ decks = {}
    /\ sqOutcome = NoOutcome
    /\ outcome = NoOutcome

serverVars == << request, session, bodyRead, dbQueries, lookup, response >>
ankiVars == << sqCalls, isConnected, notes, wire, calls, decks, sqOutcome >>
envVars == << isBrowser, isSecureContext >>

\* ------------------------------------------------ Quiz Fetch Endpoint
\* Some HTTP client posts a request straight to the endpoint.
DirectRequest ==
    /\ pc = "idle"
    /\ \E r \in Requests : request' = r
    /\ entry' = "POST"
    /\ pc' = "srv_start"
    /\ UNCHANGED << envVars, session, bodyRead, dbQueries, lookup, response, argQuizId,
                    argDeckName, ankiVars, outcome >>

\* POST up to the session check: client construction, getSession, 401.
POST_GetSession ==
    /\ pc = "srv_start"
    /\ \E s \in {"fault", "none"} \cup Users :
        /\ session' = s
        /\ IF s = "fault"
           THEN /\ response' = InternalError(<<"session lookup failed">>)
                /\ pc' = "srv_responded"
           ELSE IF Unauthenticated(s)
           THEN /\ response' = TextResp(401, <<"Unauthorized">>)
                /\ pc' = "srv_responded"
           ELSE /\ response' = response
                /\ pc' = "srv_body"
    /\ UNCHANGED << envVars, entry, request, bodyRead, dbQueries, lookup, argQuizId,
                    argDeckName, ankiVars, outcome >>

\* POST: request.json() and the quizId check.
POST_ParseBody ==
    /\ pc = "srv_body"
    /\ bodyRead' = TRUE
    /\ IF request.bodyKind # "json"
       THEN /\ response' = InternalError(<<"Unexpected token in JSON">>)
            /\ pc' = "srv_responded"
       ELSE IF MissingQuizId(request.quizId)
       THEN /\ response' = TextResp(400, <<"Missing required parameters">>)
            /\ pc' = "srv_responded"
       ELSE /\ response' = response
            /\ pc' = "srv_lookup"
    /\ UNCHANGED << envVars, entry, request, session, dbQueries, lookup, argQuizId,
                    argDeckName, ankiVars, outcome >>

\* POST: the lookup, the structure check and the answer.
POST_Lookup ==
    /\ pc = "srv_lookup"
    /\ dbQueries' = Append(dbQueries, [id |-> request.quizId, user_id |-> session])
    /\ \E fault \in BOOLEAN :
        /\ lookup' = Single(Lookup(request.quizId, session), fault)
        /\ response' = LookupResponse(lookup')
    /\ pc' = "srv_responded"
    /\ UNCHANGED << envVars, entry, request, session, bodyRead, argQuizId,
                    argDeckName, ankiVars, outcome >>

\* ------------------------------------------------------- Orchestration
\* sendToAnki(quizId, deckName) up to fetchQuizData's fetch(): the request
\* is rejected by the network, answered by an intermediary, or delivered.
SendToAnki_Fetch ==
    /\ pc = "idle"
    /\ entry' = "sendToAnki"
    /\ \E q \in RequestQuizIds, d \in DeckNames :
        /\ argQuizId' = q
        /\ argDeckName' = d
        /\ \/ /\ request' = [bodyKind |-> "json", quizId |-> q]
              /\ pc' = "srv_start"
              /\ UNCHANGED << response, outcome >>
           \/ /\ \E r \in IntermediaryResponses : response' = r
              /\ pc' = "srv_responded"
              /\ UNCHANGED << request, outcome >>
           \/ /\ \E m \in FetchFailureMessages :
                    outcome' = Failed(MkError("TypeError", m))
              /\ pc' = "done"
              /\ UNCHANGED << request, response >>
    /\ UNCHANGED << envVars, session, bodyRead, dbQueries, lookup, ankiVars >>

\* fetchQuizData after the response arrived; on a fault sendToAnki rethrows.
FetchQuizData_Receive ==
    /\ pc = "srv_responded"
    /\ entry = "sendToAnki"
    /\ LET r == FetchQuizData(response)
       IN  IF r.threw
           THEN /\ outcome' = Failed(r.error)
                /\ pc' = "done"
           ELSE /\ outcome' = outcome
                /\ pc' = "import"
    /\ UNCHANGED << envVars, entry, serverVars, argQuizId, argDeckName, ankiVars >>

\* sendToAnki: the module import, then the call of sendQuizToAnki.
SendToAnki_CallSendQuiz ==
    /\ pc = "import"
    /\ sqCalls' = Append(sqCalls, [quiz |-> response.quiz, deckName |-> argDeckName])
    /\ pc' = "sq_start"
    /\ UNCHANGED << envVars, entry, serverVars, argQuizId, argDeckName, isConnected,
                    notes, wire, calls, decks, sqOutcome, outcome >>

\* sendToAnki: return the result, or rethrow the fault, of sendQuizToAnki.
SendToAnki_Return ==
    /\ pc = "sq_returned"
    /\ entry = "sendToAnki"
    /\ outcome' = sqOutcome
    /\ pc' = "done"
    /\ UNCHANGED << envVars, entry, serverVars, argQuizId, argDeckName, ankiVars >>

\* --------------------------------------------- Local Automation Client
\* the request body invokeAnkiConnect posts
WireRequest(action, deck, ns) ==
    [action |-> action, version |-> AnkiVersion, deck |-> deck, notes |-> ns]

NotSent ==
    [net |-> "none", failmsg |-> <<>>, status |-> 0, body |-> "none",
     error |-> <<>>, result |-> JsNull]

\* one entry of the call log
CallEntry(action, out, r) ==
    [action |-> action, out |-> IF r.sent THEN out ELSE NotSent,
     sent |-> r.sent, ret |-> r.ret]

\* the listener carried the request out
ListenerAccepts(out) ==
    /\ out.net = "response"
    /\ ResponseOk(out.status)
    /\ out.body = "json"
    /\ out.error = <<>>

\* variant: createDeck swallows a fault the way testAnkiConnection does
CreateDeckSwallows(browser, secure, out) ==
    LET r == InvokeAnkiConnect(browser, secure, out)
    IN  [sent |-> r.sent, ret |-> IF r.ret.threw THEN Returned(JsNull) ELSE r.ret]

\* createDeck(deckName): return invokeAnkiConnect('createDeck', { deck })
CreateDeck(browser, secure, out) == InvokeAnkiConnect(browser, secure, out)

\* addNotes(notes): return invokeAnkiConnect('addNotes', { notes })
AddNotes(browser, secure, out) == InvokeAnkiConnect(browser, secure, out)

\* variant: the fail-fast check is missing
NotConnectedIgnored(connected) == FALSE

\* if (!isConnected)
NotConnected(connected) == ~connected

CurrentCall == sqCalls[Len(sqCalls)]

\* A caller invokes sendQuizToAnki directly with some quiz and deck name.
DirectSendQuiz ==
    /\ pc = "idle"
    /\ entry' = "sendQuizToAnki"
    /\ \E q \in DirectQuizzes, d \in DeckNames :
        sqCalls' = Append(sqCalls, [quiz |-> q, deckName |-> d])
    /\ pc' = "sq_start"
    /\ UNCHANGED << envVars, serverVars, argQuizId, argDeckName, isConnected, notes,
                    wire, calls, decks, sqOutcome, outcome >>

\* sendQuizToAnki: testAnkiConnection() and the fail-fast check.
SendQuiz_TestConnection ==
    /\ pc = "sq_start"
    /\ \E out \in ListenerOutcomes :
        LET r == InvokeAnkiConnect(isBrowser, isSecureContext, out)
            ok == TestAnkiConnection(r.ret)
        IN  /\ (~isBrowser => out = CHOOSE o \in ListenerOutcomes : TRUE)
            /\ calls' = Append(calls, CallEntry("version", out, r))
            /\ wire' = IF r.sent THEN Append(wire, WireRequest("version", "", <<>>))
                       ELSE wire
            /\ isConnected' = IF ok THEN "true" ELSE "false"
            /\ IF NotConnected(ok)
               THEN /\ sqOutcome' = Failed(MkError("Error", GenericConnectMessage))
                    /\ pc' = "sq_returned"
               ELSE /\ sqOutcome' = sqOutcome
                    /\ pc' = "sq_connected"
    /\ UNCHANGED << envVars, entry, serverVars, argQuizId, argDeckName, sqCalls,
                    notes, decks, outcome >>

\* sendQuizToAnki: map the questions to notes, then await createDeck.
SendQuiz_CreateDeck ==
    /\ pc = "sq_connected"
    /\ LET quiz == CurrentCall.quiz
           deckName == CurrentCall.deckName
       IN  IF MappingThrows(quiz)
           THEN /\ sqOutcome' = Failed(MkError("TypeError", <<"map is not a function">>))
                /\ pc' = "sq_returned"
                /\ UNCHANGED << notes, wire, calls, decks >>
           ELSE /\ notes' = PrepareNotes(quiz, deckName)
                /\ \E out \in ListenerOutcomes :
                    LET r == CreateDeck(isBrowser, isSecureContext, out)
                    IN  /\ (~isBrowser => out = CHOOSE o \in ListenerOutcomes : TRUE)
                        /\ calls' = Append(calls, CallEntry("createDeck", out, r))
                        /\ wire' = IF r.sent
                                   THEN Append(wire, WireRequest("createDeck", deckName, <<>>))
                                   ELSE wire
                        /\ decks' = IF r.sent /\ ListenerAccepts(out)
                                    THEN decks \cup {deckName} ELSE decks
                        /\ IF r.ret.threw
                           THEN /\ sqOutcome' = Failed(r.ret.error)
                                /\ pc' = "sq_returned"
                           ELSE /\ sqOutcome' = sqOutcome
                                /\ pc' = "sq_deck"
    /\ UNCHANGED << envVars, entry, serverVars, argQuizId, argDeckName, sqCalls,
                    isConnected, outcome >>

\* sendQuizToAnki: await addNotes and build the result.
SendQuiz_AddNotes ==
    /\ pc = "sq_deck"
    /\ \E out \in ListenerOutcomes :
        LET r == AddNotes(isBrowser, isSecureContext, out)
        IN  /\ (~isBrowser => out = CHOOSE o \in ListenerOutcomes : TRUE)
            /\ calls' = Append(calls, CallEntry("addNotes", out, r))
            /\ wire' = IF r.sent
                       THEN Append(wire, WireRequest("addNotes", "", notes))
                       ELSE wire
            /\ sqOutcome' =
                IF r.ret.threw THEN Failed(r.ret.error)
                ELSE IF ~IsArray(r.ret.value)
                THEN Failed(MkError("TypeError", <<"Cannot read properties of null">>))
                ELSE Succeeded(SuccessResult(r.ret.value, CurrentCall.deckName))
    /\ pc' = "sq_returned"
    /\ UNCHANGED << envVars, entry, serverVars, argQuizId, argDeckName, sqCalls,
                    isConnected, notes, decks, outcome >>

\* ----------------------------------------------------------------- Next
Next ==
    \/ DirectRequest
    \/ POST_GetSession
    \/ POST_ParseBody
    \/ POST_Lookup
    \/ SendToAnki_Fetch
    \/ FetchQuizData_Receive
    \/ SendToAnki_CallSendQuiz
    \/ SendToAnki_Return
    \/ DirectSendQuiz
    \/ SendQuiz_TestConnection
    \/ SendQuiz_CreateDeck
    \/ SendQuiz_AddNotes

Spec == Init /\ [][Next]_vars

\* =============================================================== claims
EndpointResponded == session # "unset" /\ response # NoResponse

\* C1: whenever testAnkiConnection() has returned false, sendQuizToAnki has
\* failed with the fixed connectivity error (Anki must be running) and no
\* createDeck or addNotes request has gone to the listener.
C1_FailFast ==
    isConnected = "false" =>
        /\ sqOutcome = Failed(MkError("Error", GenericConnectMessage))
        /\ \A k \in 1..Len(wire) : wire[k].action \notin {"createDeck", "addNotes"}
        /\ \A k \in 1..Len(calls) : calls[k].action = "version"
        /\ pc \in {"sq_returned", "done"}

C1_Witness ==
    /\ isConnected = "false"
    /\ entry = "sendToAnki"
    /\ pc = "done"
    /\ Len(wire) = 1

OwnedBy(quizId, user) == \E q \in QuizTable : q.id = quizId /\ q.user_id = user

\* C2: an authenticated request whose quizId names no quiz of the session's
\* user is answered 404 without quiz content, and a 200 answer carries only
\* the requested quiz, owned by the session's user.
C2_Ownership ==
    EndpointResponded =>
        /\ ( /\ session \in Users
             /\ request.bodyKind = "json"
             /\ request.quizId # ""
             /\ ~OwnedBy(request.quizId, session) )
           => /\ response.status = 404
              /\ response.kind = "text"
              /\ ~response.hasQuiz
              /\ response.quiz = NoQuiz
        /\ response.status = 200
           => /\ session \in Users
              /\ response.hasQuiz
              /\ response.quiz.user_id = session
              /\ response.quiz.id = request.quizId

C2_Witness ==
    /\ EndpointResponded
    /\ session = "u1"
    /\ request.quizId = "q2"
    /\ response.status = 404

MalformedQuestions(v) ==
    \/ v.kind \in {"undefined", "null", "emptystring", "object"}
    \/ (v.kind = "array" /\ v.items = <<>>)

\* C3: a quiz record whose questions field is missing, not a sequence or
\* empty is answered with the structural 400, never 200; every 200 answer
\* carries a non-empty sequence of questions.
C3_StructuralValidation ==
    EndpointResponded =>
        /\ (lookup.hasData /\ MalformedQuestions(lookup.data.questions))
           => response = TextResp(400, <<"Invalid quiz structure">>)
        /\ response.status = 200
           => /\ response.quiz.questions.kind = "array"
              /\ Len(response.quiz.questions.items) >= 1

C3_Witness ==
    /\ EndpointResponded
    /\ lookup.hasData
    /\ lookup.data.id = "q3"
    /\ response.status = 400

\* C4: with no session the endpoint answers 401 and does nothing else: the
\* body is not read and no lookup is issued, whatever the body is.
C4_UnauthorizedShortCircuit ==
    session = "none" =>
        /\ response = TextResp(401, <<"Unauthorized">>)
        /\ ~bodyRead
        /\ dbQueries = <<>>
        /\ lookup = NoLookup
        /\ pc \in {"srv_responded", "done"}

C4_Witness ==
    /\ session = "none"
    /\ request.bodyKind = "garbage"
    /\ response.status = 401

\* C5: every call that reached fetch() is classified as the claim says: a
\* rejected fetch gives the context-adapted connectivity error, a non-ok
\* status the transport error, a non-empty error field the protocol error,
\* and only an ok status without error returns.
C5_ErrorClassification ==
    \A k \in 1..Len(calls) :
        LET c == calls[k]
        IN  c.sent =>
            /\ c.out.net = "reject"
               => /\ c.ret.threw
                  /\ c.ret.error.message =
                        IF isSecureContext THEN MixedContentMessage
                        ELSE ListenerNotRunningMessage
            /\ (c.out.net = "response" /\ ~(c.out.status \in 200..299))
               => /\ c.ret.threw
                  /\ c.ret.error.message = <<"HTTP error! status: ", ToString(c.out.status)>>
            /\ ( /\ c.out.net = "response"
                 /\ c.out.status \in 200..299
                 /\ c.out.body = "json"
                 /\ c.out.error # <<>> )
               => /\ c.ret.threw
                  /\ c.ret.error.message = <<"Anki-Connect error: ">> \o c.out.error
            /\ ~c.ret.threw
               => /\ c.out.net = "response"
                  /\ c.out.status \in 200..299
                  /\ c.out.error = <<>>

FetchSucceeded ==
    /\ response.status \in 200..299
    /\ response.kind = "json"
    /\ response.hasQuiz

C7_SuccessResult ==
    sqOutcome.state = "returned" =>
        LET last == calls[Len(calls)]
            n == Len(last.out.result.items)
        IN  /\ last.action = "addNotes"
            /\ last.out.result.kind = "array"
            /\ sqOutcome.result.success = TRUE
            /\ sqOutcome.result.addedNotes = n
            /\ sqOutcome.result.message[2] = ToString(n)
            /\ sqOutcome.result.message[4] = CurrentCall.deckName

C7_Witness ==
    /\ sqOutcome.state = "returned"
    /\ entry = "sendToAnki"
    /\ session = "u1"
    /\ argQuizId = "q1"
    /\ argDeckName = "Deck1"
    /\ Len(notes) = 2
    /\ sqOutcome.result.addedNotes = 2

Alphabet == <<"a", "b", "c", "d", "e", "f", "g", "h">>

FrontMatches(q, front) ==
    IF q.type = "multiple_choice" /\ q.options.kind = "array"
    THEN LET n == Len(q.options.items)
             p == Len(q.text)
         IN  /\ Len(front) = p + 1 + (IF n = 0 THEN 0 ELSE 4 * n - 1)
             /\ SubSeq(front, 1, p) = q.text
             /\ front[p + 1] = "<br><br>"
             /\ \A i \in 0..(n - 1) :
                   /\ front[p + 1 + 4 * i + 1] = Alphabet[i + 1]
                   /\ front[p + 1 + 4 * i + 2] = ") "
                   /\ <<front[p + 1 + 4 * i + 3]>> = q.options.items[i + 1]
             /\ \A i \in 1..(n - 1) : front[p + 1 + 4 * i] = "<br>"
    ELSE front = q.text

\* C8: the notes handed to addNotes are one per question in order; a
\* multiple_choice question's Front is the prompt followed by the lettered
\* option lines in order, separated by <br>, any other Front is the prompt;
\* Back, template, deck, duplicate flags and tags are as specified.
C8_NoteMapping ==
    Len(calls) >= 2 =>
        LET qs == CurrentCall.quiz.questions.items
        IN  /\ Len(notes) = Len(qs)
            /\ \A k \in 1..Len(notes) :
                  /\ FrontMatches(qs[k], notes[k].fields.Front)
                  /\ notes[k].fields.Back = qs[k].correctAnswer
                  /\ notes[k].modelName = "Basic"
                  /\ notes[k].deckName = CurrentCall.deckName
                  /\ notes[k].options = [allowDuplicate |-> FALSE, duplicateScope |-> "deck"]
                  /\ notes[k].tags = << <<"quizlab-", CurrentCall.quiz.id>>, <<"quizlab">> >>
            /\ \A k \in 1..Len(wire) :
                  wire[k].action = "addNotes" => wire[k].notes = notes

C8_Witness ==
    /\ Len(wire) = 3
    /\ wire[3].action = "addNotes"
    /\ Len(wire[3].notes) = 2
    /\ Len(wire[3].notes[2].fields.Front) >= 9
    /\ Len(wire[3].notes[1].fields.Front) = 1

StepOrder == <<"version", "createDeck", "addNotes">>

CompletedOk(c) ==
    /\ ~c.ret.threw
    /\ c.sent
    /\ c.out.net = "response"
    /\ c.out.status \in 200..299
    /\ c.out.error = <<>>

C9_StepInvariant ==
    /\ Len(wire) <= 3
    /\ \A k \in 1..Len(wire) : wire[k].action = StepOrder[k]
    /\ \A k \in 2..Len(calls) : CompletedOk(calls[k - 1])
    /\ sqOutcome.state = "failed" => pc \in {"sq_returned", "done"}
    /\ (Len(calls) = 3 /\ sqOutcome.state = "failed")
       => /\ CurrentCall.deckName \in decks
          /\ Len(wire) = 3

\* C9: the verbs sent in one export attempt are a prefix of version,
\* createDeck, addNotes, each sent once and only after the previous one
\* completed successfully; after a fault nothing more is sent, and a failed
\* addNotes leaves the created deck in place.
C9_StepOrdering ==
    /\ []C9_StepInvariant
    /\ [][sqOutcome.state = "failed"
            => (wire' = wire /\ calls' = calls /\ decks' = decks /\ sqOutcome' = sqOutcome)]_vars

C9_Witness ==
    /\ Len(calls) = 3
    /\ sqOutcome.state = "failed"
    /\ CurrentCall.deckName \in decks
    /\ calls[3].ret.threw

VersionFailed ==
    /\ Len(calls) >= 1
    /\ \/ ~calls[1].sent
       \/ calls[1].out.net = "reject"
       \/ ~(calls[1].out.status \in 200..299)
       \/ calls[1].out.error # <<>>

\* C10: every failure class of the version call makes testAnkiConnection
\* return false, the fault sendQuizToAnki then raises is the one fixed
\* message whatever the class and the secure-context flag, and a
\* context-adapted message reaches the caller only from a failed createDeck
\* or addNotes.
C10_ConnectivityCollapse ==
    /\ Len(calls) >= 1 => isConnected \in {"true", "false"}
    /\ VersionFailed
       => /\ isConnected = "false"
          /\ sqOutcome = Failed(MkError("Error", GenericConnectMessage))
    /\ sqOutcome.error.message \in {MixedContentMessage, ListenerNotRunningMessage}
       => /\ Len(calls) >= 2
          /\ calls[Len(calls)].action \in {"createDeck", "addNotes"}
          /\ calls[Len(calls)].out.net = "reject"

C10_Witness ==
    /\ VersionFailed
    /\ calls[1].out.net = "reject"
    /\ isSecureContext
    /\ sqOutcome.error.message = GenericConnectMessage

====
